---- MODULE Spec2Model ----
(***************************************************************************)
(* Model of webkitpy/port/wpe.py: class WPEPort(GLibPort).                 *)
(*                                                                         *)
(* The adapter's only field of its own is _wpe_legacy_api, set once by     *)
(* __init__ from the options; the options object also carries              *)
(* additional_platform_directory.  Every other method is a query whose     *)
(* inputs are the options, the process environment (os.environ), the       *)
(* filesystem and the values returned by the parent port.  One action per  *)
(* method call, made while no call is in progress (the port is            *)
(* single-threaded and synchronous); the variables after the call hold     *)
(* the call's inputs, its return value, the warnings it logged and the     *)
(* commands it handed to the executor, until the caller takes the result   *)
(* (Return).                                                               *)
(*                                                                         *)
(* A Python str whose characters the code inspects (lower(), startswith(), *)
(* shlex.split(), +) is a tuple of one-character strings.  A filesystem    *)
(* path is a tuple of its components.  A dict is a function whose DOMAIN   *)
(* is its key set.                                                         *)
(***************************************************************************)
EXTENDS Integers, Sequences, FiniteSets, TLC

VARIABLES
    wpe_legacy_api,                 \* self._wpe_legacy_api
    additional_platform_directory,  \* option additional_platform_directory
    op,                             \* the method called, "idle" between calls
    input,                          \* what that call read: arguments, os.environ, parent values
    result,                         \* what it returned (or the exception it raised)
    warnings,                       \* the _log.warning records of that call, in order
    run_command_calls               \* the _executive.run_command invocations of that call

vars == <<wpe_legacy_api, additional_platform_directory, op, input, result,
          warnings, run_command_calls>>

---------------------------------------------------------------------------
(* Bounds *)

\* Longest additional_platform_directory list.
MaxAdditional == 2

---------------------------------------------------------------------------
(* Strings *)

UpperCase == <<"A","B","C","D","E","F","G","H","I","J","K","L","M",
               "N","O","P","Q","R","S","T","U","V","W","X","Y","Z">>
LowerCase == <<"a","b","c","d","e","f","g","h","i","j","k","l","m",
               "n","o","p","q","r","s","t","u","v","w","x","y","z">>

\* str.lower() on one character
lower_char(c) ==
    IF \E i \in 1..Len(UpperCase) : UpperCase[i] = c
    THEN LowerCase[CHOOSE i \in 1..Len(UpperCase) : UpperCase[i] = c]
    ELSE c

\* str.lower()
lower(s) == [i \in 1..Len(s) |-> lower_char(s[i])]

\* str.startswith(prefix)
startswith(s, prefix) ==
    /\ Len(s) >= Len(prefix)
    /\ SubSeq(s, 1, Len(prefix)) = prefix

\* sub in s
contains(s, sub) ==
    \E i \in 1..(Len(s) + 1) :
        /\ i + Len(sub) - 1 <= Len(s)
        /\ SubSeq(s, i, i + Len(sub) - 1) = sub

\* reversed(seq)
reversed(s) == [i \in 1..Len(s) |-> s[Len(s) + 1 - i]]

\* list(map(f, seq)) is written [i \in 1..Len(seq) |-> f(seq[i])] where used.

\* d[k] = v on a dict
dict_set(d, k, v) == [x \in DOMAIN d \cup {k} |-> IF x = k THEN v ELSE d[x]]

\* The dicts with keys among Keys and values in Values.
Dicts(Keys, Values) == UNION {[S -> Values] : S \in SUBSET Keys}

\* The one-key dict {k: v} for o = {v}, the empty dict for o = {}.
Bind(k, o) == [x \in {y \in {k} : o # {}} |-> CHOOSE v \in o : TRUE]

\* An optional value: absent, or one of Values.
Optional(Values) == {{}} \cup {{v} : v \in Values}

\* String literals of the source, as character tuples.
S_wpe == <<"-","-","w","p","e">>
S_legacy_suffix == <<" ","-","-","w","p","e","-","l","e","g","a","c","y","-","a","p","i">>
S_legacy_flag == <<"-","-","w","p","e","-","l","e","g","a","c","y","-","a","p","i">>
S_cog == <<"c","o","g">>
S_minibrowser == <<"m","i","n","i","b","r","o","w","s","e","r">>
S_dash_P == <<"-","P">>
S_platform_eq == <<"-","-","p","l","a","t","f","o","r","m","=">>
S_platform_gtk4 == <<"-","-","p","l","a","t","f","o","r","m","=","g","t","k","4">>
S_one == <<"1">>

---------------------------------------------------------------------------
(* Collaborators of the parent port, the filesystem and the build wrapper *)

\* Port._webkit_baseline_path(platform): <layout tests dir>/platform/<platform>
_webkit_baseline_path(platform) == <<"LayoutTests", "platform", platform>>

\* FileSystem.join(path, component)
join(path, component) == Append(path, component)

\* Port._build_path(*components): <build directory>/<components...>
_build_path(components) == <<"WebKitBuild", "Release">> \o components

\* FileSystem.isfile(path), files being the regular files on disk
isfile(files, path) == path \in files

\* Port._copy_value_from_environ_if_set(clean_env, name)
_copy_value_from_environ_if_set(clean_env, environ, name) ==
    IF name \in DOMAIN environ THEN dict_set(clean_env, name, environ[name])
    ELSE clean_env

\* GLibPort._jhbuild_wrapper
_jhbuild_wrapper == << <<"jhbuild-wrapper">>, S_wpe, <<"run">> >>

\* None, for a path
None == <<>>

---------------------------------------------------------------------------
(* WPEPort: the queries of the options *)

\* Faulty variant: the legacy suffix is appended whatever the flag.
_port_flag_for_scripts_always_legacy(legacy) == S_wpe \o S_legacy_suffix

_port_flag_for_scripts(legacy) ==
    LET port == S_wpe
    IN  IF legacy THEN port \o S_legacy_suffix ELSE port

\* Faulty variant: the additional directories are put first.
_search_paths_additional_first(legacy, additional) ==
    additional
        \o (IF legacy THEN <<"wpe-legacy-api">> ELSE <<>>)
        \o <<"wpe", "glib", "wk2">>

_search_paths(legacy, additional) ==
    (IF legacy THEN <<"wpe-legacy-api">> ELSE <<>>)
        \o <<"wpe">>
        \o <<"glib">>
        \o <<"wk2">>
        \o additional

default_baseline_search_path(legacy, additional) ==
    LET paths == _search_paths(legacy, additional)
    IN  [i \in 1..Len(paths) |-> _webkit_baseline_path(paths[i])]

\* Faulty variant: the search paths are walked in baseline order, not reversed.
_port_specific_expectations_files_not_reversed(legacy, additional) ==
    LET paths == _search_paths(legacy, additional)
    IN  [i \in 1..Len(paths) |->
            join(_webkit_baseline_path(paths[i]), "TestExpectations")]

_port_specific_expectations_files(legacy, additional) ==
    LET paths == reversed(_search_paths(legacy, additional))
    IN  [i \in 1..Len(paths) |->
            join(_webkit_baseline_path(paths[i]), "TestExpectations")]

\* Faulty variant: the platform label is only a default (dict.setdefault).
configuration_for_upload_setdefault(configuration) ==
    IF "platform" \in DOMAIN configuration THEN configuration
    ELSE dict_set(configuration, "platform", "WPE")

configuration_for_upload(configuration) ==
    dict_set(configuration, "platform", "WPE")

cog_path_to(components) ==
    _build_path(<<"Tools", "cog-prefix", "src", "cog-build">> \o components)

get_browser_path(name) ==
    IF name = "cog" THEN cog_path_to(<<"launcher", name>>)
    ELSE _build_path(<<"bin", name>>)

---------------------------------------------------------------------------
(* WPEPort: the queries of the environment.  Each returns its value (ret)  *)
(* and the warnings it logged.                                             *)

\* os.environ.get(name, "")
environ_get(environ, name) ==
    IF name \in DOMAIN environ THEN environ[name] ELSE <<>>

\* Faulty variant: the value is compared without lower-casing it.
browser_name_no_lower(environ) ==
    LET browser == environ_get(environ, "WPE_BROWSER")
    IN  IF browser \in {S_cog, S_minibrowser}
        THEN [ret |-> browser, warnings |-> <<>>]
        ELSE [ret |-> S_minibrowser,
              warnings |-> IF browser # <<>> THEN <<"Unknown browser">> ELSE <<>>]

browser_name(environ) ==
    LET browser == lower(environ_get(environ, "WPE_BROWSER"))
    IN  IF browser \in {S_cog, S_minibrowser}
        THEN [ret |-> browser, warnings |-> <<>>]
        ELSE [ret |-> S_minibrowser,
              warnings |-> IF browser # <<>> THEN <<"Unknown browser">> ELSE <<>>]

\* Faulty variant: COG_MODULEDIR is added whatever the browser.
setup_environ_for_minibrowser_unconditional(base_env, environ) ==
    [ret |-> dict_set(base_env, "COG_MODULEDIR", cog_path_to(<<"platform">>)),
     warnings |-> browser_name(environ).warnings]

\* base_env: what GLibPort.setup_environ_for_minibrowser() returned
setup_environ_for_minibrowser(base_env, environ) ==
    LET name == browser_name(environ)
    IN  [ret |-> IF name.ret = S_cog
                 THEN dict_set(base_env, "COG_MODULEDIR", cog_path_to(<<"platform">>))
                 ELSE base_env,
         warnings |-> name.warnings]

\* base_env: what GLibPort.setup_environ_for_minibrowser() returned
setup_environ_for_webdriver(base_env) ==
    [ret |-> dict_set(base_env, "COG_MODULEDIR", cog_path_to(<<"platform">>)),
     warnings |-> <<>>]

\* Faulty variant: an inherited WEBKIT_SKIA_ENABLE_CPU_RENDERING is kept.
setup_environ_for_server_keep_inherited(environment, environ) ==
    LET e1 == dict_set(environment, "LIBGL_ALWAYS_SOFTWARE", S_one)
        e2 == IF "WEBKIT_SKIA_ENABLE_CPU_RENDERING" \in DOMAIN e1 THEN e1
              ELSE dict_set(e1, "WEBKIT_SKIA_ENABLE_CPU_RENDERING", S_one)
        e3 == _copy_value_from_environ_if_set(e2, environ, "XR_RUNTIME_JSON")
        e4 == _copy_value_from_environ_if_set(e3, environ, "BREAKPAD_MINIDUMP_DIR")
    IN  [ret |-> e4,
         warnings |-> IF "WEBKIT_SKIA_ENABLE_CPU_RENDERING" \in DOMAIN e1
                      THEN <<"Ignoring WEBKIT_SKIA_ENABLE_CPU_RENDERING">> ELSE <<>>]

\* environment: what GLibPort.setup_environ_for_server(server_name) returned
setup_environ_for_server(environment, environ) ==
    LET e1 == dict_set(environment, "LIBGL_ALWAYS_SOFTWARE", S_one)
        e2 == dict_set(e1, "WEBKIT_SKIA_ENABLE_CPU_RENDERING", S_one)
        e3 == _copy_value_from_environ_if_set(e2, environ, "XR_RUNTIME_JSON")
        e4 == _copy_value_from_environ_if_set(e3, environ, "BREAKPAD_MINIDUMP_DIR")
    IN  [ret |-> e4,
         warnings |-> IF "WEBKIT_SKIA_ENABLE_CPU_RENDERING" \in DOMAIN e1
                      THEN <<"Ignoring WEBKIT_SKIA_ENABLE_CPU_RENDERING">> ELSE <<>>]

---------------------------------------------------------------------------
(* shlex.split(s): shlex(s, posix=True) with whitespace_split = True and   *)
(* no commenters, read to the end.  The states are those of                *)
(* shlex.read_token: " " between tokens, "a" in a word, a quote character  *)
(* inside quotes, the escape character after a backslash.  The value is    *)
(* [ok |-> TRUE, tokens |-> ...], or [ok |-> FALSE, ...] where shlex       *)
(* raises ValueError (no closing quotation, no escaped character).         *)

shlex_whitespace == {" ", "\t", "\r", "\n"}
shlex_quotes == {"'", "\""}
shlex_escape == {"\\"}
shlex_escapedquotes == {"\""}

RECURSIVE shlex_read(_, _, _, _, _, _, _)
shlex_read(s, i, state, escapedstate, token, quoted, out) ==
    LET eof == i > Len(s)
        nextchar == IF eof THEN "" ELSE s[i]
        emitted == IF token # <<>> \/ quoted THEN Append(out, token) ELSE out
    IN  IF state = " " THEN
            IF eof THEN [ok |-> TRUE, tokens |-> out]
            ELSE IF nextchar \in shlex_whitespace THEN
                shlex_read(s, i + 1, " ", " ", <<>>, FALSE, emitted)
            ELSE IF nextchar \in shlex_escape THEN
                shlex_read(s, i + 1, nextchar, "a", token, quoted, out)
            ELSE IF nextchar \in shlex_quotes THEN
                shlex_read(s, i + 1, nextchar, escapedstate, token, quoted, out)
            ELSE
                shlex_read(s, i + 1, "a", escapedstate, <<nextchar>>, quoted, out)
        ELSE IF state \in shlex_quotes THEN
            IF eof THEN [ok |-> FALSE, tokens |-> <<>>]
            ELSE IF nextchar = state THEN
                shlex_read(s, i + 1, "a", escapedstate, token, TRUE, out)
            ELSE IF nextchar \in shlex_escape /\ state \in shlex_escapedquotes THEN
                shlex_read(s, i + 1, nextchar, state, token, TRUE, out)
            ELSE
                shlex_read(s, i + 1, state, escapedstate, Append(token, nextchar), TRUE, out)
        ELSE IF state \in shlex_escape THEN
            IF eof THEN [ok |-> FALSE, tokens |-> <<>>]
            ELSE LET kept == IF /\ escapedstate \in shlex_quotes
                                /\ nextchar # state
                                /\ nextchar # escapedstate
                             THEN Append(token, state) ELSE token
                 IN  shlex_read(s, i + 1, escapedstate, escapedstate,
                                Append(kept, nextchar), quoted, out)
        ELSE \* state = "a"
            IF eof THEN [ok |-> TRUE, tokens |-> emitted]
            ELSE IF nextchar \in shlex_whitespace THEN
                shlex_read(s, i + 1, " ", " ", <<>>, FALSE, emitted)
            ELSE IF nextchar \in shlex_quotes THEN
                shlex_read(s, i + 1, nextchar, escapedstate, token, quoted, out)
            ELSE IF nextchar \in shlex_escape THEN
                shlex_read(s, i + 1, nextchar, "a", token, quoted, out)
            ELSE
                shlex_read(s, i + 1, "a", escapedstate, Append(token, nextchar), quoted, out)

shlex_split(s) == shlex_read(s, 1, " ", " ", <<>>, FALSE, <<>>)

---------------------------------------------------------------------------
(* WPEPort.run_minibrowser(args), in the order of its statements *)

\* Faulty variant: COG_PLATFORM_NAME in the environment is not looked at.
has_platform_arg_args_only(args, environ) ==
    \E i \in 1..Len(args) :
        args[i] = S_dash_P \/ startswith(args[i], S_platform_eq)

has_platform_arg(args, environ) ==
    \/ \E i \in 1..Len(args) :
           args[i] = S_dash_P \/ startswith(args[i], S_platform_eq)
    \/ "COG_PLATFORM_NAME" \in DOMAIN environ

\* The first block: cog, when it is selected and built.
select_cog(args, environ, files) ==
    LET name == browser_name(environ)
        cog == get_browser_path("cog")
    IN  IF name.ret = S_cog THEN
            IF ~isfile(files, cog)
            THEN [miniBrowser |-> None, args |-> args,
                  warnings |-> Append(name.warnings, "Cog not found")]
            ELSE [miniBrowser |-> cog,
                  args |-> IF ~has_platform_arg(args, environ)
                           THEN <<S_platform_gtk4>> \o args ELSE args,
                  warnings |-> name.warnings]
        ELSE [miniBrowser |-> None, args |-> args, warnings |-> name.warnings]

\* Faulty variant: a missing MiniBrowser binary is launched all the same.
select_default_no_check(miniBrowser, files) ==
    IF miniBrowser = None
    THEN [miniBrowser |-> get_browser_path("MiniBrowser"), returned |-> FALSE,
          warnings |-> <<>>]
    ELSE [miniBrowser |-> miniBrowser, returned |-> FALSE, warnings |-> <<>>]

\* The second block: MiniBrowser when cog was not taken; returned: "return 1".
select_default(miniBrowser, files) ==
    IF miniBrowser = None THEN
        LET default == get_browser_path("MiniBrowser")
        IN  IF ~isfile(files, default)
            THEN [miniBrowser |-> default, returned |-> TRUE,
                  warnings |-> <<"MiniBrowser not found">>]
            ELSE [miniBrowser |-> default, returned |-> FALSE, warnings |-> <<>>]
    ELSE [miniBrowser |-> miniBrowser, returned |-> FALSE, warnings |-> <<>>]

\* command = [miniBrowser], with the tokens of WEBKIT_MINI_BROWSER_PREFIX before it
prefixed_command(miniBrowser, environ) ==
    LET prefix == environ_get(environ, "WEBKIT_MINI_BROWSER_PREFIX")
    IN  IF prefix # <<>>
        THEN LET split == shlex_split(prefix)
             IN  [ok |-> split.ok, command |-> split.tokens \o <<miniBrowser>>]
        ELSE [ok |-> TRUE, command |-> <<miniBrowser>>]

\* sysprof: what setup_sysprof_for_minibrowser() returned, (env, pass_fds);
\* use_jhbuild: what _should_use_jhbuild() returned;
\* status: what _executive.run_command returns for the command.
\* The value: ret (raised = "" ) or the exception raised, the caller's list
\* args and the local miniBrowser as the call leaves them, the warnings and
\* the run_command invocations.
run_minibrowser(args, environ, files, use_jhbuild, sysprof, status) ==
    LET cog == select_cog(args, environ, files)
        chosen == select_default(cog.miniBrowser, files)
        logged == cog.warnings \o chosen.warnings
        prefixed == prefixed_command(chosen.miniBrowser, environ)
        command == IF use_jhbuild THEN _jhbuild_wrapper \o prefixed.command
                   ELSE prefixed.command
    IN  IF chosen.returned THEN
            [ret |-> 1, raised |-> "", args |-> cog.args, miniBrowser |-> chosen.miniBrowser,
             warnings |-> logged, calls |-> <<>>]
        ELSE IF ~prefixed.ok THEN
            [ret |-> 0, raised |-> "ValueError", args |-> cog.args,
             miniBrowser |-> chosen.miniBrowser, warnings |-> logged, calls |-> <<>>]
        ELSE
            [ret |-> status, raised |-> "", args |-> cog.args,
             miniBrowser |-> chosen.miniBrowser, warnings |-> logged,
             calls |-> << [command |-> command \o cog.args, cwd |-> "webkit_base",
                           env |-> sysprof.env, pass_fds |-> sysprof.pass_fds] >>]

---------------------------------------------------------------------------
(* The values the calls are tried on *)

\* Entries of the additional_platform_directory option.
AdditionalDirs == {"extra1", "extra2"}
AdditionalLists == UNION {[1..n -> AdditionalDirs] : n \in 0..MaxAdditional}

\* Values of WPE_BROWSER: "", "COG", "cog", "MiniBrowser", "minibrowser", "bogus".
BrowserValues ==
    { <<>>, <<"C","O","G">>, S_cog,
      <<"M","i","n","i","B","r","o","w","s","e","r">>, S_minibrowser,
      <<"b","o","g","u","s">> }

\* The parent's upload configuration.
UploadConfigurations == Dicts({"platform", "style", "version_name"}, {"GTK", "release"})

\* The parent's environment for the manual browser.
MinibrowserEnvs == Dicts({"PATH", "COG_MODULEDIR"}, {<<"/">>, <<"o">>})

\* The parent's environment for a server, and os.environ, for setup_environ_for_server.
ServerEnvs ==
    Dicts({"PATH", "LIBGL_ALWAYS_SOFTWARE", "WEBKIT_SKIA_ENABLE_CPU_RENDERING"},
          {<<"0">>, S_one})
ServerEnviron ==
    Dicts({"XR_RUNTIME_JSON", "BREAKPAD_MINIDUMP_DIR", "WEBKIT_SKIA_ENABLE_CPU_RENDERING"},
          {<<"0">>})

\* run_minibrowser: the caller's argument lists
A_url == <<"u">>
A_wl == <<"w","l">>
A_platform_wl == S_platform_eq \o A_wl
ArgLists ==
    { <<>>, <<A_url>>, <<S_dash_P, A_wl, A_url>>, <<A_url, A_platform_wl>> }

\* run_minibrowser: os.environ
PrefixValues ==
    { <<>>,                                   \* ""
      <<"g"," ","-","q">>,                    \* "g -q"
      <<"'","g"," ","q","'">>,                \* "'g q'"
      <<"'","g">>,                            \* "'g": no closing quotation
      <<"g","\\">> }                          \* "g\": no escaped character
LaunchEnviron ==
    { Bind("WPE_BROWSER", b) @@ Bind("COG_PLATFORM_NAME", c)
          @@ Bind("WEBKIT_MINI_BROWSER_PREFIX", x) :
        b \in Optional({<<"C","O","G">>, <<"b","o","g","u","s">>}),
        c \in Optional({A_wl}),
        x \in Optional(PrefixValues) }

\* run_minibrowser: the regular files on disk
FileSets == SUBSET {get_browser_path("cog"), get_browser_path("MiniBrowser")}

\* run_minibrowser: what setup_sysprof_for_minibrowser() returns, (env, pass_fds),
\* and what the executor then returns
Collaborators ==
    { [sysprof |-> [env |-> Bind("PATH", {<<"/">>}), pass_fds |-> {}],
       status |-> 0],
      [sysprof |-> [env |-> Bind("SYSPROF_CONTROL_FD", {<<"3">>}), pass_fds |-> {"fd3"}],
       status |-> 2] }

---------------------------------------------------------------------------
(* The adapter after __init__, and one action per method *)

Init ==
    /\ wpe_legacy_api \in BOOLEAN
    /\ additional_platform_directory \in AdditionalLists
    /\ op = "idle"
    /\ input = <<>>
    /\ result = <<>>
    /\ warnings = <<>>
    /\ run_command_calls = <<>>

Called(name, in, out) ==
    /\ op' = name
    /\ input' = in
    /\ result' = out.ret
    /\ warnings' = out.warnings
    /\ run_command_calls' = <<>>
    /\ UNCHANGED <<wpe_legacy_api, additional_platform_directory>>

PortFlagForScripts ==
    /\ op = "idle"
    /\ Called("_port_flag_for_scripts", <<>>,
           [ret |-> _port_flag_for_scripts(wpe_legacy_api), warnings |-> <<>>])

DefaultBaselineSearchPath ==
    /\ op = "idle"
    /\ Called("default_baseline_search_path", <<>>,
           [ret |-> default_baseline_search_path(wpe_legacy_api,
                                                 additional_platform_directory),
            warnings |-> <<>>])

PortSpecificExpectationsFiles ==
    /\ op = "idle"
    /\ Called("_port_specific_expectations_files", <<>>,
           [ret |-> _port_specific_expectations_files(wpe_legacy_api,
                                                      additional_platform_directory),
            warnings |-> <<>>])

ConfigurationForUpload ==
    /\ op = "idle"
    /\ \E configuration \in UploadConfigurations :
        Called("configuration_for_upload", [configuration |-> configuration],
               [ret |-> configuration_for_upload(configuration), warnings |-> <<>>])

BrowserName ==
    /\ op = "idle"
    /\ \E b \in Optional(BrowserValues) :
        LET environ == Bind("WPE_BROWSER", b)
        IN  Called("browser_name", [environ |-> environ], browser_name(environ))

SetupEnvironForMinibrowser ==
    /\ op = "idle"
    /\ \E base_env \in MinibrowserEnvs, b \in Optional(BrowserValues) :
        LET environ == Bind("WPE_BROWSER", b)
        IN  Called("setup_environ_for_minibrowser",
                   [base_env |-> base_env, environ |-> environ],
                   setup_environ_for_minibrowser(base_env, environ))

SetupEnvironForWebdriver ==
    /\ op = "idle"
    /\ \E base_env \in MinibrowserEnvs, b \in Optional(BrowserValues) :
        LET environ == Bind("WPE_BROWSER", b)
        IN  Called("setup_environ_for_webdriver",
                   [base_env |-> base_env, environ |-> environ],
                   setup_environ_for_webdriver(base_env))

SetupEnvironForServer ==
    /\ op = "idle"
    /\ \E environment \in ServerEnvs, environ \in ServerEnviron :
        Called("setup_environ_for_server",
               [environment |-> environment, environ |-> environ],
               setup_environ_for_server(environment, environ))

RunMinibrowser ==
    /\ op = "idle"
    /\ \E args \in ArgLists, environ \in LaunchEnviron, files \in FileSets,
          use_jhbuild \in BOOLEAN, others \in Collaborators :
        LET sysprof == others.sysprof
            status == others.status
            out == run_minibrowser(args, environ, files, use_jhbuild, sysprof, status)
        IN  /\ op' = "run_minibrowser"
            /\ input' = [args |-> args, environ |-> environ, files |-> files,
                         use_jhbuild |-> use_jhbuild, sysprof |-> sysprof,
                         status |-> status]
            /\ result' = [ret |-> out.ret, raised |-> out.raised, args |-> out.args,
                          miniBrowser |-> out.miniBrowser]
            /\ warnings' = out.warnings
            /\ run_command_calls' = out.calls
            /\ UNCHANGED <<wpe_legacy_api, additional_platform_directory>>

\* The caller takes the result; the call's frame is gone.
Return ==
    /\ op # "idle"
    /\ op' = "idle"
    /\ input' = <<>>
    /\ result' = <<>>
    /\ warnings' = <<>>
    /\ run_command_calls' = <<>>
    /\ UNCHANGED <<wpe_legacy_api, additional_platform_directory>>

Next ==
    \/ PortFlagForScripts
    \/ DefaultBaselineSearchPath
    \/ PortSpecificExpectationsFiles
    \/ ConfigurationForUpload
    \/ BrowserName
    \/ SetupEnvironForMinibrowser
    \/ SetupEnvironForWebdriver
    \/ SetupEnvironForServer
    \/ RunMinibrowser
    \/ Return

Spec == Init /\ [][Next]_vars

---------------------------------------------------------------------------
(* Properties *)

\* The elements of a sequence.
Range(seq) == {seq[i] : i \in 1..Len(seq)}

\* The directory name of a baseline path, and of an expectations file.
DirectoryOf(path) == path[3]

\* C1: the expectations files are the baseline search path reversed: with n
\* the length of default_baseline_search_path(), there are n expectations
\* files and the i-th (from 0) is join(baseline_path[n-1-i], 'TestExpectations').
ExpectationsReverseBaseline ==
    op = "_port_specific_expectations_files" =>
        LET baseline == default_baseline_search_path(wpe_legacy_api,
                                                    additional_platform_directory)
            n == Len(baseline)
        IN  /\ Len(result) = n
            /\ \A i \in 0..(n - 1) :
                   result[i + 1] = join(baseline[(n - 1 - i) + 1], "TestExpectations")

ExpectationsReverseBaselineWitness ==
    /\ op = "_port_specific_expectations_files"
    /\ wpe_legacy_api
    /\ Len(additional_platform_directory) = 2
    /\ additional_platform_directory[1] # additional_platform_directory[2]
    /\ DirectoryOf(result[1]) = additional_platform_directory[2]

\* C6: default_baseline_search_path() is 'wpe-legacy-api' (exactly when the
\* legacy flag is set), 'wpe', 'glib', 'wk2', then the additional directories
\* in the order given, and nothing else.
BaselineSearchOrder ==
    op = "default_baseline_search_path" =>
        LET k == IF wpe_legacy_api THEN 1 ELSE 0
            additional == additional_platform_directory
        IN  /\ Len(result) = k + 3 + Len(additional)
            /\ \A i \in 1..Len(result) : result[i] = _webkit_baseline_path(DirectoryOf(result[i]))
            /\ wpe_legacy_api <=> DirectoryOf(result[1]) = "wpe-legacy-api"
            /\ wpe_legacy_api <=> \E i \in 1..Len(result) : DirectoryOf(result[i]) = "wpe-legacy-api"
            /\ DirectoryOf(result[k + 1]) = "wpe"
            /\ DirectoryOf(result[k + 2]) = "glib"
            /\ DirectoryOf(result[k + 3]) = "wk2"
            /\ \A j \in 1..Len(additional) : DirectoryOf(result[k + 3 + j]) = additional[j]

BaselineSearchOrderWitness ==
    /\ op = "default_baseline_search_path"
    /\ wpe_legacy_api
    /\ Len(additional_platform_directory) = 2
    /\ additional_platform_directory[1] # additional_platform_directory[2]
    /\ Len(result) = 6

\* C7: _port_flag_for_scripts() starts with '--wpe' and contains
\* '--wpe-legacy-api' exactly when the legacy flag is set; no operation
\* changes the flag, so every call of the adapter's lifetime returns the same.
PortFlagFollowsLegacyFlag ==
    /\ [](op = "_port_flag_for_scripts" =>
            /\ startswith(result, S_wpe)
            /\ contains(result, S_legacy_flag) <=> wpe_legacy_api)
    /\ [][wpe_legacy_api' = wpe_legacy_api]_vars

PortFlagFollowsLegacyFlagWitness ==
    /\ op = "_port_flag_for_scripts"
    /\ wpe_legacy_api
    /\ contains(result, S_legacy_flag)

\* C8: configuration_for_upload() has 'platform' = 'WPE' whatever the parent's
\* mapping held for it, and every other key of the parent's mapping unchanged.
UploadPlatformIsWPE ==
    op = "configuration_for_upload" =>
        /\ DOMAIN result = DOMAIN input.configuration \cup {"platform"}
        /\ result["platform"] = "WPE"
        /\ \A k \in DOMAIN input.configuration \ {"platform"} :
               result[k] = input.configuration[k]

UploadPlatformIsWPEWitness ==
    /\ op = "configuration_for_upload"
    /\ DOMAIN input.configuration = {"platform", "style"}
    /\ input.configuration["platform"] = "GTK"
    /\ result["platform"] = "WPE"

BrowserNameSelection ==
    op = "browser_name" =>
        LET set == "WPE_BROWSER" \in DOMAIN input.environ
            value == IF set THEN input.environ["WPE_BROWSER"] ELSE <<>>
            recognized == lower(value) \in {S_cog, S_minibrowser}
        IN  /\ result \in {S_cog, S_minibrowser}
            /\ recognized => result = lower(value) /\ warnings = <<>>
            /\ (set /\ value # <<>> /\ ~recognized) =>
                   result = S_minibrowser /\ Len(warnings) = 1
            /\ ~set => result = S_minibrowser /\ warnings = <<>>
            /\ (set /\ value = <<"C","O","G">>) => result = <<"c","o","g">>
            /\ (set /\ value = <<"b","o","g","u","s">>) =>
                   result = S_minibrowser /\ Len(warnings) = 1

BrowserNameSelectionWitness ==
    /\ op = "browser_name"
    /\ "WPE_BROWSER" \in DOMAIN input.environ
    /\ input.environ["WPE_BROWSER"] = <<"C","O","G">>
    /\ result = S_cog

\* C5: setup_environ_for_webdriver always returns the parent's environment
\* with COG_MODULEDIR set to the cog 'platform' build directory;
\* setup_environ_for_minibrowser sets it exactly when browser_name() is "cog"
\* and returns the parent's environment as it is otherwise.
CogModuledirPolicy ==
    LET moduledir == <<"WebKitBuild", "Release", "Tools", "cog-prefix", "src",
                       "cog-build", "platform">>
        with_moduledir == [k \in DOMAIN input.base_env \cup {"COG_MODULEDIR"} |->
                              IF k = "COG_MODULEDIR" THEN moduledir
                              ELSE input.base_env[k]]
        value == IF "WPE_BROWSER" \in DOMAIN input.environ
                 THEN input.environ["WPE_BROWSER"] ELSE <<>>
        cog == lower(value) = S_cog
    IN  /\ op = "setup_environ_for_webdriver" => result = with_moduledir
        /\ op = "setup_environ_for_minibrowser" =>
               result = IF cog THEN with_moduledir ELSE input.base_env

CogModuledirPolicyWitness ==
    /\ op = "setup_environ_for_webdriver"
    /\ "WPE_BROWSER" \notin DOMAIN input.environ
    /\ "COG_MODULEDIR" \notin DOMAIN input.base_env
    /\ "COG_MODULEDIR" \in DOMAIN result

---------------------------------------------------------------------------
(* Properties of run_minibrowser *)

\* What a run_minibrowser call read.
CogSelected ==
    /\ "WPE_BROWSER" \in DOMAIN input.environ
    /\ lower(input.environ["WPE_BROWSER"]) = S_cog
CogBuilt == get_browser_path("cog") \in input.files
MiniBrowserBuilt == get_browser_path("MiniBrowser") \in input.files
BinaryFound == (CogSelected /\ CogBuilt) \/ MiniBrowserBuilt
IsPlatformArg(a) == a = <<"-","P">> \/ startswith(a, S_platform_eq)
PlatformSupplied ==
    \/ \E a \in Range(input.args) : IsPlatformArg(a)
    \/ "COG_PLATFORM_NAME" \in DOMAIN input.environ

\* C2: with cog selected and its binary not a file the launcher goes on with
\* the MiniBrowser binary; when the MiniBrowser binary is needed and is not a
\* file either (cog selected or not), run_minibrowser returns 1 and
\* run_command is not invoked.
MissingBinaryFallback ==
    op = "run_minibrowser" =>
        /\ (CogSelected /\ ~CogBuilt) =>
               /\ result.miniBrowser = get_browser_path("MiniBrowser")
               /\ \A i \in 1..Len(run_command_calls) :
                      /\ get_browser_path("MiniBrowser") \in Range(run_command_calls[i].command)
                      /\ get_browser_path("cog") \notin Range(run_command_calls[i].command)
        /\ (~(CogSelected /\ CogBuilt) /\ ~MiniBrowserBuilt) =>
               /\ result.raised = ""
               /\ result.ret = 1
               /\ run_command_calls = <<>>

MissingBinaryFallbackWitness ==
    /\ op = "run_minibrowser"
    /\ CogSelected /\ ~CogBuilt /\ ~MiniBrowserBuilt
    /\ result.ret = 1
    /\ run_command_calls = <<>>

\* C9: with cog selected and built, "--platform=gtk4" is put before the
\* caller's arguments exactly when the arguments hold no "-P" and no
\* "--platform=..." and COG_PLATFORM_NAME is not set; otherwise the arguments
\* are the caller's; the executor gets these arguments; an injected platform
\* argument is the only platform specification of the command.
PlatformInjection ==
    op = "run_minibrowser" =>
        LET inject == CogSelected /\ CogBuilt /\ ~PlatformSupplied
        IN  /\ result.args = IF inject THEN <<S_platform_gtk4>> \o input.args
                             ELSE input.args
            /\ \A i \in 1..Len(run_command_calls) :
                   LET command == run_command_calls[i].command
                       n == Len(command)
                       m == Len(result.args)
                   IN  /\ n > m
                       /\ SubSeq(command, n - m + 1, n) = result.args
                       /\ command[n - m] = result.miniBrowser
            /\ inject =>
                   /\ Cardinality({j \in 1..Len(result.args) : IsPlatformArg(result.args[j])}) = 1
                   /\ "COG_PLATFORM_NAME" \notin DOMAIN input.environ

PlatformInjectionWitness ==
    /\ op = "run_minibrowser"
    /\ CogSelected /\ CogBuilt /\ ~PlatformSupplied
    /\ input.args # <<>>
    /\ result.args[1] = S_platform_gtk4
    /\ Len(run_command_calls) = 1

\* The command run_minibrowser is to hand to the executor: the build wrapper
\* when _should_use_jhbuild(), the tokens of a set, non-empty
\* WEBKIT_MINI_BROWSER_PREFIX, the browser executable, the arguments.
ExpectedCommand ==
    LET prefix == IF "WEBKIT_MINI_BROWSER_PREFIX" \in DOMAIN input.environ
                  THEN input.environ["WEBKIT_MINI_BROWSER_PREFIX"] ELSE <<>>
    IN  (IF input.use_jhbuild THEN _jhbuild_wrapper ELSE <<>>)
            \o (IF prefix # <<>> THEN shlex_split(prefix).tokens ELSE <<>>)
            \o <<result.miniBrowser>>
            \o result.args

\* C10: whenever run_minibrowser finds a browser binary on disk it invokes
\* run_command exactly once, with wrapper, prefix tokens, executable and
\* arguments in that order, and returns the executor's result unmodified.
LaunchesOnceWhenBinaryFound ==
    (op = "run_minibrowser" /\ BinaryFound) =>
        /\ Len(run_command_calls) = 1
        /\ run_command_calls[1].command = ExpectedCommand
        /\ result.raised = ""
        /\ result.ret = input.status

\* The same for the values of WEBKIT_MINI_BROWSER_PREFIX that shlex.split
\* accepts (unset and empty included); for the others ValueError is raised
\* and run_command is not invoked.
LaunchesOnceWhenPrefixSplits ==
    (op = "run_minibrowser" /\ BinaryFound) =>
        LET prefix == IF "WEBKIT_MINI_BROWSER_PREFIX" \in DOMAIN input.environ
                      THEN input.environ["WEBKIT_MINI_BROWSER_PREFIX"] ELSE <<>>
        IN  IF shlex_split(prefix).ok
            THEN /\ Len(run_command_calls) = 1
                 /\ run_command_calls[1].command = ExpectedCommand
                 /\ run_command_calls[1].env = input.sysprof.env
                 /\ run_command_calls[1].pass_fds = input.sysprof.pass_fds
                 /\ result.raised = ""
                 /\ result.ret = input.status
            ELSE /\ run_command_calls = <<>>
                 /\ result.raised = "ValueError"

LaunchesOnceWhenPrefixSplitsWitness ==
    /\ op = "run_minibrowser"
    /\ input.use_jhbuild
    /\ "WEBKIT_MINI_BROWSER_PREFIX" \in DOMAIN input.environ
    /\ Len(shlex_split(input.environ["WEBKIT_MINI_BROWSER_PREFIX"]).tokens) = 2
    /\ Len(run_command_calls) = 1
    /\ result.ret = 2

====
